---- MODULE Spec2Model ----
(***************************************************************************)
(* Model of the parking-space controller (transformCustomTimes,            *)
(* createParkingSpace, findNearbyParkingSpaces) and of the review          *)
(* controller (createReview).                                              *)
(*                                                                         *)
(* JavaScript values are modelled as records with a kind field k, so that  *)
(* undefined, null, NaN, Invalid Date and well-formed values can sit in    *)
(* the same collection.  Dates are minutes since 1970-01-01T00:00 local    *)
(* time; clock strings "HH:MM" are records with an hour and a minute.      *)
(***************************************************************************)
EXTENDS Integers, Sequences, FiniteSets, TLC

\* ------------------------------------------------------------------ bounds
\* most keys present in an owner's customTimes object (normalizer inputs)
MaxPresentKeys == 2
\* most parking spaces kept in the store
MaxSpaces == 2
\* most reviews kept in the store
MaxReviews == 2
\* latest value of the wall clock in the review specification
MaxNow == 2

\* ------------------------------------------------------- program constants
\* search radius in kilometres ($centerSphere: 5 / 6378.1)
SearchRadiusKm == 5
\* spotImages.length > 6 is rejected
MaxSpotImages == 6

\* --------------------------------------------------------------- JS values
\* a clock string "HH:MM"
T(h, m) == [k |-> "hhmm", h |-> h, m |-> m]
\* a field that was never given
UndefinedTime == [k |-> "undefined", h |-> 0, m |-> 0]

\* an entry of customTimes: { in, out }, with either field possibly missing
Entry(i, o) == [k |-> "object", in |-> i, out |-> o]
\* an entry sent as null (falsy)
NullEntry == [k |-> "null", in |-> UndefinedTime, out |-> UndefinedTime]
\* an entry sent as a non-empty string (truthy, no in / out properties)
StringEntry == [k |-> "string", in |-> UndefinedTime, out |-> UndefinedTime]
\* what a property lookup gives for a key the object does not have
UndefinedEntry == [k |-> "undefined", in |-> UndefinedTime, out |-> UndefinedTime]

\* customTimes[key]
Get(obj, key) == IF key \in DOMAIN obj THEN obj[key] ELSE UndefinedEntry

\* JavaScript truthiness of an entry value
Truthy(v) == v.k \in {"object", "string"}

\* ---------------------------------------------------- transformCustomTimes
daysOfWeek ==
    <<"Monday", "Tuesday", "Wednesday", "Thursday", "Friday", "Saturday", "Sunday">>

\* day.toLowerCase()
toLowerCase(day) ==
    CASE day = "Monday" -> "monday"
      [] day = "Tuesday" -> "tuesday"
      [] day = "Wednesday" -> "wednesday"
      [] day = "Thursday" -> "thursday"
      [] day = "Friday" -> "friday"
      [] day = "Saturday" -> "saturday"
      [] day = "Sunday" -> "sunday"
      [] OTHER -> day

\* the object pushed for one day
MakeSlotSwapped(day, entry) == [day |-> day, fromTime |-> entry.out, toTime |-> entry.in]

MakeSlot(day, entry) == [day |-> day, fromTime |-> entry.in, toTime |-> entry.out]

\* the body of the forEach callback: availability after visiting one day
VisitDay(availability, customTimes, day) ==
    IF Truthy(Get(customTimes, toLowerCase(day)))
    THEN Append(availability, MakeSlot(day, Get(customTimes, toLowerCase(day))))
    ELSE availability

RECURSIVE ForEachDay(_, _, _)
\* daysOfWeek.forEach from index i on
ForEachDay(availability, customTimes, i) ==
    IF i > Len(daysOfWeek)
    THEN availability
    ELSE ForEachDay(VisitDay(availability, customTimes, daysOfWeek[i]), customTimes, i + 1)

\* transformCustomTimes(customTimes), for an argument that is an object
transformCustomTimes(customTimes) == ForEachDay(<<>>, customTimes, 1)

\* the call as a whole: indexing undefined throws a TypeError
CallTransform(arg) ==
    IF arg.k = "object"
    THEN [threw |-> FALSE, value |-> transformCustomTimes(arg.map)]
    ELSE [threw |-> TRUE, value |-> <<>>]

\* ------------------------------------------------------------------- dates
InvalidDate == [k |-> "invalid", t |-> 0]
DateAt(d, h, m) == [k |-> "date", t |-> d * 1440 + h * 60 + m]

\* a timeIn / timeOut query string: an ISO timestamp or something unparsable
Iso(d, h, m) == [k |-> "iso", d |-> d, h |-> h, m |-> m]
BadTimestamp == [k |-> "bad", d |-> 0, h |-> 0, m |-> 0]

\* new Date(timeIn)
NewDate(s) == IF s.k = "iso" THEN DateAt(s.d, s.h, s.m) ELSE InvalidDate

\* isNaN(date)
IsNaNDate(date) == date.k = "invalid"

\* date.toLocaleString('en-US', { weekday: 'long' }); 1970-01-01 was a Thursday
toLocaleWeekday(date) == daysOfWeek[(((date.t \div 1440) + 3) % 7) + 1]

\* date.toTimeString().slice(0, 5)
toTimeStringSlice(date) == T((date.t % 1440) \div 60, date.t % 60)

\* new Date(`1970-01-01T${clock}:00`)
ClockDate(clock) ==
    IF clock.k = "hhmm" /\ clock.h \in 0..23 /\ clock.m \in 0..59
    THEN DateAt(0, clock.h, clock.m)
    ELSE InvalidDate

\* a >= b and a <= b on Date objects (false as soon as one side is NaN)
DateGe(a, b) == a.k = "date" /\ b.k = "date" /\ a.t >= b.t
DateLe(a, b) == a.k = "date" /\ b.k = "date" /\ a.t <= b.t

\* ---------------------------------------------------------------- location
\* The location query string is a sequence of tokens: "," or a lexeme.
UndefinedString == [k |-> "undefined", lex |-> <<>>]
Str(lex) == [k |-> "string", lex |-> lex]

RECURSIVE SplitFrom(_, _, _, _)
\* location.split(','), scanning from token i with the current part cur
SplitFrom(toks, i, cur, parts) ==
    IF i > Len(toks)
    THEN Append(parts, Str(cur))
    ELSE IF toks[i] = ","
         THEN SplitFrom(toks, i + 1, <<>>, Append(parts, Str(cur)))
         ELSE SplitFrom(toks, i + 1, Append(cur, toks[i]), parts)

Split(toks) == SplitFrom(toks, 1, <<>>, <<>>)

\* array destructuring: element i, or undefined
Element(parts, i) == IF i <= Len(parts) THEN parts[i] ELSE UndefinedString

NaN == [k |-> "nan", v |-> 0]
Infinity == [k |-> "inf", v |-> 0]
Num(v) == [k |-> "num", v |-> v]

\* the value of a numeric literal lexeme
LiteralValue(lex) == CASE lex = "0" -> 0 [] lex = "6" -> 6 [] OTHER -> 0
IsLiteral(lex) == lex \in {"0", "6"}

\* the lexemes of a string with surrounding whitespace removed
Trim(lex) == SelectSeq(lex, LAMBDA x : x # " ")

\* ToNumber, as applied by isNaN and by the store's cast of the centre
ToNumber(s) ==
    IF s.k = "undefined" THEN NaN
    ELSE IF Trim(s.lex) = <<>> THEN Num(0)
    ELSE IF Len(Trim(s.lex)) = 1 /\ IsLiteral(Trim(s.lex)[1]) THEN Num(LiteralValue(Trim(s.lex)[1]))
    ELSE IF Trim(s.lex) = <<"Infinity">> THEN Infinity
    ELSE NaN

\* isNaN(s)
isNaN(s) == ToNumber(s).k = "nan"

\* !location
LocationMissing(location) == location.k = "undefined" \/ location.toks = <<>>

\* ------------------------------------------------------------------- state
VARIABLES
    pc,             \* "idle", or the name of the handler that has just answered
    response,       \* the last response: status, error text, body
    store,          \* the ParkingSpace collection, in the store's return order
    query,          \* req.query of the last findNearbyParkingSpaces call
    candidates,     \* what ParkingSpace.find(...) returned to that call
    storeQueried,   \* whether that call issued ParkingSpace.find(...)
    customTimes,    \* the argument of the transformCustomTimes call under study
    availability,   \* what that call returned (or that it threw)
    reviews,        \* the Review collection
    spaceReviews,   \* parking space id -> its reviews list
    reservations,   \* reservation id -> its endTime, review and status
    now,            \* the wall clock, new Date()
    reviewReq       \* req.params and req.user of the last createReview call

vars == <<pc, response, store, query, candidates, storeQueried, customTimes,
          availability, reviews, spaceReviews, reservations, now, reviewReq>>

searchVars == <<store, query, candidates, storeQueried>>
normVars == <<customTimes, availability>>
reviewVars == <<reviews, spaceReviews, reservations, now, reviewReq>>

NoResponse == [status |-> 0, error |-> "", body |-> <<>>]
Ok(status, body) == [status |-> status, error |-> "", body |-> body]
Err(status, text) == [status |-> status, error |-> text, body |-> <<>>]

\* ------------------------------------------------- findNearbyParkingSpaces
\* coordinates are [lng, lat] in kilometres on a locally flat grid
Point(lng, lat) == [lng |-> lng, lat |-> lat]

\* $geoWithin: { $centerSphere: [[lng, lat], 5 / 6378.1] }
WithinRadius(coordinates, lng, lat) ==
    /\ lng.k = "num"
    /\ lat.k = "num"
    /\ (coordinates.lng - lng.v) * (coordinates.lng - lng.v)
         + (coordinates.lat - lat.v) * (coordinates.lat - lat.v)
       <= SearchRadiusKm * SearchRadiusKm

\* the filter document of the find: radius, availableFrom $lte, isAvailable
FindFilterNoFlag(space, lng, lat, timeInDate) ==
    /\ WithinRadius(space.coordinates, ToNumber(lng), ToNumber(lat))
    /\ space.availableFrom.t <= timeInDate.t

FindFilter(space, lng, lat, timeInDate) ==
    /\ WithinRadius(space.coordinates, ToNumber(lng), ToNumber(lat))
    /\ space.availableFrom.t <= timeInDate.t
    /\ space.isAvailable

\* ParkingSpace.find({...}).lean()
Find(spaces, lng, lat, timeInDate) ==
    SelectSeq(spaces, LAMBDA space : FindFilter(space, lng, lat, timeInDate))

\* the weekday the slots are compared with
queryDayOfEnd(timeInDate, timeOutDate) == toLocaleWeekday(timeOutDate)

queryDay(timeInDate, timeOutDate) == toLocaleWeekday(timeInDate)

\* the comparison made for a slot of the query day
WindowCheckStartOnly(slot, timeInDate, timeOutDate) ==
    DateGe(ClockDate(toTimeStringSlice(timeInDate)), ClockDate(slot.fromTime))

WindowCheck(slot, timeInDate, timeOutDate) ==
    /\ DateGe(ClockDate(toTimeStringSlice(timeInDate)), ClockDate(slot.fromTime))
    /\ DateLe(ClockDate(toTimeStringSlice(timeOutDate)), ClockDate(slot.toTime))

\* the callback of daysAvailable.some
SlotMatchesAnyDay(slot, timeInDate, timeOutDate) ==
    WindowCheck(slot, timeInDate, timeOutDate)

SlotMatches(slot, timeInDate, timeOutDate) ==
    IF slot.day = queryDay(timeInDate, timeOutDate)
    THEN WindowCheck(slot, timeInDate, timeOutDate)
    ELSE FALSE

\* the callback of parkingSpaces.filter
SpaceMatches(parkingSpace, timeInDate, timeOutDate) ==
    \E i \in 1..Len(parkingSpace.daysAvailable) :
        SlotMatches(parkingSpace.daysAvailable[i], timeInDate, timeOutDate)

RECURSIVE FilterFromReversed(_, _, _, _, _)
FilterFromReversed(parkingSpaces, i, kept, timeInDate, timeOutDate) ==
    IF i > Len(parkingSpaces)
    THEN kept
    ELSE FilterFromReversed(parkingSpaces, i + 1,
            IF SpaceMatches(parkingSpaces[i], timeInDate, timeOutDate)
            THEN <<parkingSpaces[i]>> \o kept
            ELSE kept,
            timeInDate, timeOutDate)

RECURSIVE FilterFrom(_, _, _, _, _)
\* parkingSpaces.filter(...), from index i on, kept so far
FilterFrom(parkingSpaces, i, kept, timeInDate, timeOutDate) ==
    IF i > Len(parkingSpaces)
    THEN kept
    ELSE FilterFrom(parkingSpaces, i + 1,
            IF SpaceMatches(parkingSpaces[i], timeInDate, timeOutDate)
            THEN Append(kept, parkingSpaces[i])
            ELSE kept,
            timeInDate, timeOutDate)

FilterReversed(parkingSpaces, timeInDate, timeOutDate) ==
    FilterFromReversed(parkingSpaces, 1, <<>>, timeInDate, timeOutDate)

Filter(parkingSpaces, timeInDate, timeOutDate) ==
    FilterFrom(parkingSpaces, 1, <<>>, timeInDate, timeOutDate)

\* The handler from the request to the response.  storeFails is whether the
\* awaited find rejects; the rejection goes to asyncHandler's error path.
FindNearbyOutcome(spaces, q, storeFails) ==
    LET parts == Split(q.location.toks)
        lat == Element(parts, 1)
        lng == Element(parts, 2)
        timeInDate == NewDate(q.timeIn)
        timeOutDate == NewDate(q.timeOut)
        parkingSpaces == Find(spaces, lng, lat, timeInDate)
    IN  IF LocationMissing(q.location)
        THEN [response |-> Err(400, "Location is required"),
              queried |-> FALSE, candidates |-> <<>>]
        ELSE IF isNaN(lat) \/ isNaN(lng)
        THEN [response |-> Err(400, "Invalid location format"),
              queried |-> FALSE, candidates |-> <<>>]
        ELSE IF IsNaNDate(timeInDate) \/ IsNaNDate(timeOutDate)
        THEN [response |-> Err(400, "Invalid date format"),
              queried |-> FALSE, candidates |-> <<>>]
        ELSE IF storeFails
        THEN [response |-> Err(500, "store query failed"),
              queried |-> TRUE, candidates |-> <<>>]
        ELSE [response |-> Ok(200, Filter(parkingSpaces, timeInDate, timeOutDate)),
              queried |-> TRUE, candidates |-> parkingSpaces]

\* ------------------------------------------------------ createParkingSpace
\* User.findOne({ email: owner }) finds these owners
RegisteredOwners == {"owner@example.com"}

\* getCoordinates(address): { lat, lng }
getCoordinates(address) == [lat |-> 6, lng |-> 0]

UndefinedArg == [k |-> "undefined", map |-> <<>>]
Obj(map) == [k |-> "object", map |-> map]

\* The handler from the request body to the response and the saved document.
CreateOutcome(spaces, body) ==
    LET daysAvailable == CallTransform(body.customTimes)
        point == getCoordinates(body.address)
        newParkingSpace ==
            [id |-> Len(spaces) + 1,
             coordinates |-> Point(point.lng, point.lat),
             availableFrom |-> NewDate(body.availableFrom),
             isAvailable |-> TRUE,
             daysAvailable |-> daysAvailable.value]
    IN  IF body.title = ""
        THEN [response |-> Err(400, "All fields are required"), store |-> spaces]
        ELSE IF body.spotImages > MaxSpotImages
        THEN [response |-> Err(400, "You can only upload a maximum of 6 images"),
              store |-> spaces]
        ELSE IF body.owner \notin RegisteredOwners
        THEN [response |-> Err(400, "Owner not found"), store |-> spaces]
        ELSE IF daysAvailable.threw
        THEN [response |-> Err(500, "TypeError"), store |-> spaces]
        ELSE [response |-> Ok(201, <<newParkingSpace>>),
              store |-> Append(spaces, newParkingSpace)]

\* ------------------------------------------------------------ createReview
RegisteredUsers == {"u1"}

NoReviewReq == [uid |-> "", parkingId |-> "", reservationId |-> ""]

\* reservation.endTime > new Date()
NotEndedNever(reservation, clock) == FALSE

NotEnded(reservation, clock) == reservation.endTime > clock

\* The handler from the request to the response and the saved documents.
\* saves is how many of the three awaited save() calls resolve before one
\* rejects (3: all resolve); a rejection is caught and passed to next.
CreateReviewOutcome(rv, sr, rs, clock, req, saves) ==
    LET review == [id |-> Len(rv) + 1, user |-> req.uid,
                   parkingSpace |-> req.parkingId, reservation |-> req.reservationId]
        unchanged == [reviews |-> rv, spaceReviews |-> sr, reservations |-> rs]
    IN  IF req.uid \notin RegisteredUsers
        THEN unchanged @@ [response |-> Err(404, "User not found")]
        ELSE IF req.parkingId \notin DOMAIN sr
        THEN unchanged @@ [response |-> Err(404, "Parking space not found")]
        ELSE IF req.reservationId \notin DOMAIN rs
        THEN unchanged @@ [response |-> Err(404, "Reservation not found")]
        ELSE IF NotEnded(rs[req.reservationId], clock)
        THEN unchanged @@ [response |-> Err(400, "Reservation has not ended yet")]
        ELSE [reviews |-> IF saves >= 1 THEN Append(rv, review) ELSE rv,
              spaceReviews |->
                  IF saves >= 2
                  THEN [sr EXCEPT ![req.parkingId] = Append(@, review.id)]
                  ELSE sr,
              reservations |->
                  IF saves >= 3
                  THEN [rs EXCEPT ![req.reservationId] =
                            [@ EXCEPT !.review = review.id, !.status = "Completed"]]
                  ELSE rs,
              response |-> IF saves >= 3
                           THEN Ok(201, <<review>>)
                           ELSE Err(500, "save failed")]

\* ------------------------------------------------------------------ inputs
\* origins of two finite numbers: inside and outside the radius of the spaces
WellFormedLocations ==
    { [k |-> "string", toks |-> <<"6", ",", "0">>],
      [k |-> "string", toks |-> <<"0", ",", "6">>] }

\* no location, "abc,0", ",0", " ,0", "6", "Infinity,0" and "6,0,0"
MalformedLocations ==
    { [k |-> "undefined", toks |-> <<>>],
      [k |-> "string", toks |-> <<"abc", ",", "0">>],
      [k |-> "string", toks |-> <<",", "0">>],
      [k |-> "string", toks |-> <<" ", ",", "0">>],
      [k |-> "string", toks |-> <<"6">>],
      [k |-> "string", toks |-> <<"Infinity", ",", "0">>],
      [k |-> "string", toks |-> <<"6", ",", "0", ",", "0">>] }

\* day 4 and day 11 are Mondays, day 5 and day 12 are Tuesdays
TimeIns ==
    { Iso(4, 8, 0), Iso(4, 10, 0), Iso(4, 17, 0), Iso(5, 10, 0), Iso(11, 10, 0),
      BadTimestamp }

TimeOuts ==
    { Iso(5, 8, 0), Iso(4, 12, 0), Iso(4, 18, 0), Iso(12, 12, 0), BadTimestamp }

Queries ==
    [location : WellFormedLocations, timeIn : TimeIns, timeOut : TimeOuts]
    \cup
    [location : MalformedLocations, timeIn : {Iso(4, 10, 0), BadTimestamp},
     timeOut : {Iso(4, 12, 0), BadTimestamp}]

NoQuery == [location |-> [k |-> "undefined", toks |-> <<>>],
            timeIn |-> BadTimestamp, timeOut |-> BadTimestamp]

\* owners' schedules offered to createParkingSpace
Schedules ==
    { Obj([x \in {"monday"} |-> Entry(T(9, 0), T(17, 0))]),
      Obj([x \in {"tuesday"} |-> Entry(T(9, 0), T(17, 0))]),
      Obj([x \in {"monday"} |-> Entry(T(17, 0), T(9, 0))]) }

AvailableFroms == { Iso(0, 0, 0), Iso(8, 0, 0) }

GoodBodies ==
    [owner : RegisteredOwners, address : {"1 Main St"}, title : {"Spot"},
     spotImages : {1}, availableFrom : AvailableFroms, customTimes : Schedules]

\* bodies that one of the handler's checks rejects
BadBodies ==
    [owner : {"nobody@example.com"}, address : {"1 Main St"}, title : {"Spot"},
     spotImages : {1}, availableFrom : {Iso(0, 0, 0)}, customTimes : Schedules]
    \cup
    [owner : RegisteredOwners, address : {"1 Main St"}, title : {"", "Spot"},
     spotImages : {1, MaxSpotImages + 1}, availableFrom : {Iso(0, 0, 0)},
     customTimes : {UndefinedArg}]

Bodies == GoodBodies \cup BadBodies

\* customTimes arguments for the normalizer on its own
NormKeys ==
    {"monday", "tuesday", "wednesday", "thursday", "friday", "saturday", "sunday",
     "Monday"}

NormTimes == {T(9, 0), T(17, 0), UndefinedTime}

EntryValues == {NullEntry, StringEntry} \cup {Entry(i, o) : i \in NormTimes, o \in NormTimes}

NormMaps ==
    UNION { [K -> EntryValues] : K \in {S \in SUBSET NormKeys : Cardinality(S) <= MaxPresentKeys} }

NormInputs == {UndefinedArg} \cup {Obj(m) : m \in NormMaps}

NotCalled == [called |-> FALSE, threw |-> FALSE, value |-> <<>>]

ReviewReqs ==
    [uid : {"u1", "u2"}, parkingId : {"p1", "p2"}, reservationId : {"r1", "r2", "r3"}]

InitialReservations ==
    [r \in {"r1", "r2"} |->
        [endTime |-> IF r = "r1" THEN 1 ELSE 2, review |-> 0, status |-> "Pending"]]

\* ----------------------------------------------------------- initial state
InitCommon ==
    /\ pc = "idle"
    /\ response = NoResponse
    /\ store = <<>>
    /\ query = NoQuery
    /\ candidates = <<>>
    /\ storeQueried = FALSE
    /\ availability = NotCalled
    /\ reviews = <<>>
    /\ spaceReviews = [p \in {"p1"} |-> <<>>]
    /\ reservations = InitialReservations
    /\ now = 0
    /\ reviewReq = NoReviewReq

Init == InitCommon /\ customTimes = UndefinedArg

InitNorm == InitCommon /\ customTimes \in NormInputs

InitReview == Init

\* ----------------------------------------------------------------- actions
\* the event loop takes the next request; the handler's locals are gone
Ready ==
    /\ pc # "idle"
    /\ pc' = "idle"
    /\ response' = NoResponse
    /\ query' = NoQuery
    /\ candidates' = <<>>
    /\ storeQueried' = FALSE
    /\ reviewReq' = NoReviewReq
    /\ UNCHANGED <<store, customTimes, availability, reviews, spaceReviews,
                   reservations, now>>

CreateParkingSpace ==
    /\ pc = "idle"
    /\ Len(store) < MaxSpaces
    /\ \E body \in Bodies :
          LET out == CreateOutcome(store, body)
          IN  /\ store' = out.store
              /\ response' = out.response
    /\ pc' = "createParkingSpace"
    /\ UNCHANGED <<query, candidates, storeQueried>>
    /\ UNCHANGED normVars
    /\ UNCHANGED reviewVars

\* another handler of the application switches a space's isAvailable flag
SetAvailability ==
    /\ pc = "idle"
    /\ \E i \in 1..Len(store) :
          store' = [store EXCEPT ![i].isAvailable = ~@]
    /\ UNCHANGED <<pc, response, query, candidates, storeQueried>>
    /\ UNCHANGED normVars
    /\ UNCHANGED reviewVars

FindNearbyParkingSpaces ==
    /\ pc = "idle"
    /\ \E q \in Queries, storeFails \in BOOLEAN :
          LET out == FindNearbyOutcome(store, q, storeFails)
          IN  /\ query' = q
              /\ response' = out.response
              /\ candidates' = out.candidates
              /\ storeQueried' = out.queried
    /\ pc' = "findNearbyParkingSpaces"
    /\ UNCHANGED store
    /\ UNCHANGED normVars
    /\ UNCHANGED reviewVars

TransformCustomTimes ==
    /\ ~availability.called
    /\ availability' = [called |-> TRUE] @@ CallTransform(customTimes)
    /\ UNCHANGED <<pc, response, customTimes>>
    /\ UNCHANGED searchVars
    /\ UNCHANGED reviewVars

CreateReview ==
    /\ pc = "idle"
    /\ Len(reviews) < MaxReviews
    /\ \E req \in ReviewReqs, saves \in 0..3 :
          LET out == CreateReviewOutcome(reviews, spaceReviews, reservations, now, req, saves)
          IN  /\ reviewReq' = req
              /\ reviews' = out.reviews
              /\ spaceReviews' = out.spaceReviews
              /\ reservations' = out.reservations
              /\ response' = out.response
    /\ pc' = "createReview"
    /\ UNCHANGED now
    /\ UNCHANGED searchVars
    /\ UNCHANGED normVars

\* time passes
Tick ==
    /\ now < MaxNow
    /\ now' = now + 1
    /\ UNCHANGED <<pc, response, reviews, spaceReviews, reservations, reviewReq>>
    /\ UNCHANGED searchVars
    /\ UNCHANGED normVars

\* ---------------------------------------------------------- specifications
Next == CreateParkingSpace \/ SetAvailability \/ FindNearbyParkingSpaces \/ Ready

Spec == Init /\ [][Next]_vars

NextNorm == TransformCustomTimes

SpecNorm == InitNorm /\ [][NextNorm]_vars

NextReview == CreateReview \/ Tick \/ Ready

SpecReview == InitReview /\ [][NextReview]_vars

\* ------------------------------------------------- vocabulary of the claims
\* These read the raw request and the raw stored values; they do not go
\* through the conversions of the handlers.

LowerName ==
    [d \in {"Monday", "Tuesday", "Wednesday", "Thursday", "Friday", "Saturday", "Sunday"} |->
        CASE d = "Monday" -> "monday" [] d = "Tuesday" -> "tuesday"
          [] d = "Wednesday" -> "wednesday" [] d = "Thursday" -> "thursday"
          [] d = "Friday" -> "friday" [] d = "Saturday" -> "saturday"
          [] d = "Sunday" -> "sunday"]

DayIndex(d) == CHOOSE i \in 1..7 : daysOfWeek[i] = d

\* an entry of the documented form { in: "HH:MM", out: "HH:MM" }
WellFormedEntry(e) == e.k = "object" /\ e.in.k = "hhmm" /\ e.out.k = "hhmm"

SlotsOfDay(slots, d) == {p \in 1..Len(slots) : slots[p].day = d}

\* an origin "lat,lng" of exactly two finite numbers
WellFormedOrigin(location) ==
    /\ location.k = "string"
    /\ Len(location.toks) = 3
    /\ location.toks[2] = ","
    /\ location.toks[1] \in {"0", "6"}
    /\ location.toks[3] \in {"0", "6"}

OriginLat(location) == IF location.toks[1] = "6" THEN 6 ELSE 0
OriginLng(location) == IF location.toks[3] = "6" THEN 6 ELSE 0

ParsesAsTimestamp(s) == s.k = "iso"

\* minutes since the epoch, weekday and clock time of a timestamp string
Instant(s) == s.d * 1440 + s.h * 60 + s.m
WeekdayOf(s) == daysOfWeek[((s.d + 3) % 7) + 1]
TimeOfDay(s) == s.h * 60 + s.m
ClockMinutes(c) == c.h * 60 + c.m

InSeq(x, seq) == \E i \in 1..Len(seq) : seq[i] = x

SearchAnswered == pc = "findNearbyParkingSpaces"
SearchSucceeded == SearchAnswered /\ response.status = 200

\* the slot contains the requested clock window on the weekday of the start
SlotContains(slot, timeIn, timeOut) ==
    /\ slot.day = WeekdayOf(timeIn)
    /\ slot.fromTime.k = "hhmm"
    /\ slot.toTime.k = "hhmm"
    /\ TimeOfDay(timeIn) >= ClockMinutes(slot.fromTime)
    /\ TimeOfDay(timeOut) <= ClockMinutes(slot.toTime)

\* the space's only slot for the weekday of the start has fromTime >= toTime
OnlySlotInverted(space, timeIn) ==
    /\ Cardinality(SlotsOfDay(space.daysAvailable, WeekdayOf(timeIn))) = 1
    /\ \A p \in SlotsOfDay(space.daysAvailable, WeekdayOf(timeIn)) :
          /\ space.daysAvailable[p].fromTime.k = "hhmm"
          /\ space.daysAvailable[p].toTime.k = "hhmm"
          /\ ClockMinutes(space.daysAvailable[p].fromTime)
               >= ClockMinutes(space.daysAvailable[p].toTime)

IsSubsequence(sub, seq) ==
    \E f \in [1..Len(sub) -> 1..Len(seq)] :
        /\ \A i \in 1..Len(sub) : sub[i] = seq[f[i]]
        /\ \A i, j \in 1..Len(sub) : i < j => f[i] < f[j]

\* ------------------------------------------------------------------ claims

\* C1: for a customTimes object, transformCustomTimes returns exactly one slot
\* {day, fromTime = in, toTime = out} for each weekday whose lowercase name is
\* a key holding an {in, out} entry, no slot for a weekday whose lowercase name
\* is not a key, the slots in Monday..Sunday order and no weekday twice.
C1_OneSlotPerScheduledDay ==
    (availability.called /\ customTimes.k = "object") =>
        LET m == customTimes.map
            out == availability.value
        IN  /\ ~availability.threw
            /\ \A p \in 1..Len(out) : \E i \in 1..7 : out[p].day = daysOfWeek[i]
            /\ \A i \in 1..7 :
                  LET d == daysOfWeek[i]
                      key == LowerName[d]
                  IN  /\ key \notin DOMAIN m => SlotsOfDay(out, d) = {}
                      /\ (key \in DOMAIN m /\ WellFormedEntry(m[key])) =>
                            /\ Cardinality(SlotsOfDay(out, d)) = 1
                            /\ \A p \in SlotsOfDay(out, d) :
                                  /\ out[p].fromTime = m[key].in
                                  /\ out[p].toTime = m[key].out
            /\ \A p, q \in 1..Len(out) : p < q => DayIndex(out[p].day) < DayIndex(out[q].day)

\* a schedule of Wednesday only has been normalized to its single slot
C1_Witness ==
    /\ availability.called
    /\ customTimes.k = "object"
    /\ DOMAIN customTimes.map = {"wednesday"}
    /\ WellFormedEntry(customTimes.map["wednesday"])
    /\ availability.value =
          <<[day |-> "Wednesday", fromTime |-> customTimes.map["wednesday"].in,
             toTime |-> customTimes.map["wednesday"].out]>>

\* C2: every record of a successful search for a well-formed origin has
\* isAvailable = true, availableFrom <= requestedStart and lies within the
\* 5 km radius of the origin.
C2_ResultPassesAllGates ==
    (SearchSucceeded /\ WellFormedOrigin(query.location)) =>
        \A i \in 1..Len(response.body) :
            LET r == response.body[i]
            IN  /\ InSeq(r, store)
                /\ r.isAvailable
                /\ r.availableFrom.t <= Instant(query.timeIn)
                /\ (r.coordinates.lat - OriginLat(query.location))
                     * (r.coordinates.lat - OriginLat(query.location))
                   + (r.coordinates.lng - OriginLng(query.location))
                     * (r.coordinates.lng - OriginLng(query.location))
                   <= SearchRadiusKm * SearchRadiusKm

\* a search returned a space while the store also held a space that is
\* switched off
C2_Witness ==
    /\ SearchSucceeded
    /\ WellFormedOrigin(query.location)
    /\ Len(response.body) >= 1
    /\ \E i \in 1..Len(store) : ~store[i].isAvailable

\* C3: a candidate returned by the store is in the result exactly when one of
\* its slots is for the weekday of requestedStart and contains the clock
\* window from requestedStart to requestedEnd.
C3_MatchIffSlotContainsWindow ==
    SearchSucceeded =>
        \A i \in 1..Len(candidates) :
            InSeq(candidates[i], response.body)
            <=> \E p \in 1..Len(candidates[i].daysAvailable) :
                    SlotContains(candidates[i].daysAvailable[p], query.timeIn, query.timeOut)

\* Monday 10:00-12:00 matched a Monday 09:00-17:00 space and left out a
\* candidate open on Tuesday only
C3_Witness ==
    /\ SearchSucceeded
    /\ query.timeIn = Iso(4, 10, 0)
    /\ query.timeOut = Iso(4, 12, 0)
    /\ Len(response.body) = 1
    /\ Len(candidates) = 2
    /\ response.body[1].daysAvailable =
          <<[day |-> "Monday", fromTime |-> T(9, 0), toTime |-> T(17, 0)]>>

\* C4: an origin that is missing or is not exactly two finite numbers is
\* answered with the malformed-input error.
C4_MalformedOriginRejected ==
    (SearchAnswered /\ ~WellFormedOrigin(query.location)) => response.status = 400

\* C5: when the origin is malformed or a timestamp does not parse, the request
\* ends with the malformed-input error, the store is not queried and no result
\* is returned.
C5_ValidationBeforeQuery ==
    (SearchAnswered /\ (\/ ~WellFormedOrigin(query.location)
                        \/ ~ParsesAsTimestamp(query.timeIn)
                        \/ ~ParsesAsTimestamp(query.timeOut))) =>
        /\ response.status = 400
        /\ ~storeQueried
        /\ response.body = <<>>
        /\ candidates = <<>>

\* C6 as stated: a record whose only slot for the query weekday has
\* fromTime >= toTime is in no result.
C6_InvertedSlotNeverMatched ==
    SearchSucceeded =>
        \A i \in 1..Len(response.body) : ~OnlySlotInverted(response.body[i], query.timeIn)

\* C6 amended: such a record is in the result only of a query whose clock time
\* of requestedEnd is not after the clock time of requestedStart.
C6_InvertedSlotNeedsInvertedWindow ==
    SearchSucceeded =>
        \A i \in 1..Len(response.body) :
            OnlySlotInverted(response.body[i], query.timeIn) =>
                TimeOfDay(query.timeOut) <= TimeOfDay(query.timeIn)

\* a forward clock window was refused by a candidate with an inverted slot
C6_Witness ==
    /\ SearchSucceeded
    /\ TimeOfDay(query.timeIn) < TimeOfDay(query.timeOut)
    /\ \E i \in 1..Len(candidates) :
          /\ OnlySlotInverted(candidates[i], query.timeIn)
          /\ ~InSeq(candidates[i], response.body)

\* C7: transformCustomTimes of a customTimes object raises no failure, and an
\* entry that is missing or malformed (no in, no out, or not an object) yields
\* no slot for its day.
C7_MalformedEntryIsClosedDay ==
    (availability.called /\ customTimes.k = "object") =>
        /\ ~availability.threw
        /\ \A i \in 1..7 :
              LET d == daysOfWeek[i]
                  key == LowerName[d]
              IN  (key \notin DOMAIN customTimes.map
                   \/ ~WellFormedEntry(customTimes.map[key]))
                  => SlotsOfDay(availability.value, d) = {}

\* C8: the result is a subsequence of what the store returned.
C8_ResultIsSubsequenceOfCandidates ==
    SearchSucceeded => IsSubsequence(response.body, candidates)

\* two candidates were both kept
C8_Witness ==
    /\ SearchSucceeded
    /\ Len(candidates) = 2
    /\ Len(response.body) = 2

\* C9: a query that agrees with the answered one on the weekday of
\* requestedStart and on the clock times of requestedStart and requestedEnd
\* gets the same decision for every candidate, whatever its dates.
C9_DecisionIgnoresDates ==
    SearchSucceeded =>
        \A tin \in TimeIns, tout \in TimeOuts :
            (/\ ParsesAsTimestamp(tin)
             /\ ParsesAsTimestamp(tout)
             /\ WeekdayOf(tin) = WeekdayOf(query.timeIn)
             /\ TimeOfDay(tin) = TimeOfDay(query.timeIn)
             /\ TimeOfDay(tout) = TimeOfDay(query.timeOut)) =>
                \A i \in 1..Len(candidates) :
                    SpaceMatches(candidates[i], NewDate(tin), NewDate(tout))
                    <=> InSeq(candidates[i], response.body)

\* a window that ends eight days after it starts was matched
C9_Witness ==
    /\ SearchSucceeded
    /\ query.timeIn = Iso(4, 10, 0)
    /\ query.timeOut = Iso(12, 12, 0)
    /\ Len(response.body) >= 1

\* the four checks of createReview, on the state the handler reads
ReviewChecksPass(req) ==
    /\ req.uid \in RegisteredUsers
    /\ req.parkingId \in DOMAIN spaceReviews
    /\ req.reservationId \in DOMAIN reservations
    /\ reservations[req.reservationId].endTime <= now

\* C10: createReview saves a Review only when user, parking space and
\* reservation exist and the reservation has ended; when a check fails an
\* error is passed on and nothing changes; on success the review's id is in
\* the space's reviews list and the reservation is Completed with that review.
C10_CreateReviewContract ==
    [][ (pc = "idle" /\ pc' = "createReview") =>
          /\ reviews' # reviews => ReviewChecksPass(reviewReq')
          /\ ~ReviewChecksPass(reviewReq') =>
                /\ response'.status \in {400, 404}
                /\ reviews' = reviews
                /\ spaceReviews' = spaceReviews
                /\ reservations' = reservations
          /\ response'.status = 201 =>
                /\ ReviewChecksPass(reviewReq')
                /\ Len(response'.body) = 1
                /\ InSeq(response'.body[1], reviews')
                /\ ~InSeq(response'.body[1], reviews)
                /\ InSeq(response'.body[1].id, spaceReviews'[reviewReq'.parkingId])
                /\ reservations'[reviewReq'.reservationId].review = response'.body[1].id
                /\ reservations'[reviewReq'.reservationId].status = "Completed"
    ]_vars

\* a review has been created for an ended reservation
C10_Witness ==
    /\ pc = "createReview"
    /\ response.status = 201
    /\ reservations[reviewReq.reservationId].status = "Completed"
    /\ Len(spaceReviews[reviewReq.parkingId]) >= 1

====
